---- MODULE Spec2Model ----
(***************************************************************************)
(* Model of src/main.py (MediaMetadataManager): the metadata cache         *)
(* (_load_metadata / _save_metadata), the remote resolver (_search_tmdb),  *)
(* the embedder (_apply_metadata_to_file), the scan loop (scan_directory)  *)
(* and the filename parser (_parse_filename).                              *)
(*                                                                         *)
(* Spec       the pipeline: one process run after another over a fixed     *)
(*            directory of media files.                                    *)
(* SpecParse  the filename parser applied to bounded file names.           *)
(* SpecCast   the cast extraction of _search_tmdb applied to bounded        *)
(*            detail responses.                                            *)
(***************************************************************************)
EXTENDS Integers, Sequences, FiniteSets, TLC

\* ---- bounds -------------------------------------------------------------
NumFiles == 2
MaxRuns == 2
MaxTok == 5
MaxCast == 6

VARIABLES
    run,          \* number of the current process run
    pc,           \* position of the process
    toolArg,      \* the --ffmpeg argument: "none", "valid" or "bogus"
    toolFound,    \* whether an ffmpeg binary is installed on the system
    ffmpeg_path,  \* self.ffmpeg_path
    metaDir,      \* whether <directory>/.metadata (and posters/) exists
    disk,         \* contents of .metadata/metadata.json
    metadata,     \* self.metadata
    loaded,       \* history: value _load_metadata returned in this run
    idx,          \* position of the scan loop in media_files
    detail,       \* shape of the detail response of the resolution under way
    files,        \* contents of every media file at its original path
    temp,         \* contents of every temp_<name> file of the scratch directory
    embPre,       \* history: contents of the file when the Embedder was called
    embResult,    \* return value of _apply_metadata_to_file
    embCount,     \* history: calls of the Embedder per file in this run
    flushCount,   \* history: completed _save_metadata calls in this run
    lookups,      \* history: remote search requests issued in this run
    touched,      \* history: a media file, the cache file or .metadata was created or modified in this run
    lastRes,      \* history: how the call of _search_tmdb that has just returned ended
    crashCause,   \* exception that ended the process, "none" otherwise
    prevFlush,    \* history: cache file as flushed by the previous run, NoDoc if it did not complete
    pname,        \* parser: the file name
    pres,         \* parser: the tuple _parse_filename returned
    ppc,          \* parser: position
    detailed_info, \* cast: the detail response, as far as its credits go
    cast_list,    \* cast: the list built for the record's "cast"
    cpc           \* cast: position

vars == <<run, pc, toolArg, toolFound, ffmpeg_path, metaDir, disk, metadata,
          loaded, idx, detail, files, temp, embPre, embResult,
          embCount, flushCount, lookups, touched, lastRes, crashCause,
          prevFlush, pname, pres, ppc, detailed_info, cast_list, cpc>>

pipeVars == <<run, pc, toolArg, toolFound, ffmpeg_path, metaDir, disk, metadata,
          loaded, idx, detail, files, temp, embPre, embResult,
          embCount, flushCount, lookups, touched, lastRes, crashCause,
          prevFlush>>

parseVars == <<pname, pres, ppc>>

castVars == <<detailed_info, cast_list, cpc>>

\* ---- the directory ------------------------------------------------------
\* media_files: the eligible files in the order of the directory walk.
media_files == [i \in 1..NumFiles |-> i]

Files == 1..NumFiles

\* relative_path of a file: its cache key.
relative_path(f) == f

\* file_path.name: files 1 and 2 lie in different subdirectories and share
\* their name, as do files 3 and 4, and so on.
FileName(f) == (f + 1) \div 2

Names == {FileName(f) : f \in Files}

\* ---- records ------------------------------------------------------------
\* A metadata record as built by _search_tmdb: a non-empty dict.
Rec(poster) == [kind |-> "record", poster |-> poster]

\* An empty JSON object {} stored under a key of the cache file.
EmptyRec == [kind |-> "empty", poster |-> FALSE]

\* Python None, what dict.get returns for a missing key.
None == [kind |-> "none", poster |-> FALSE]

\* Python truthiness of a cache value.
Truthy(r) == r.kind = "record"

\* ---- the in-memory cache: an insertion-ordered dict ---------------------
EmptyDict == [kind |-> "dict", pairs |-> <<>>]

ListValue == [kind |-> "list", pairs |-> <<>>]

Unset == [kind |-> "unset", pairs |-> <<>>]

HasKey(m, k) == \E i \in 1..Len(m.pairs) : m.pairs[i][1] = k

\* dict.get(k)
Get(m, k) ==
    IF HasKey(m, k)
    THEN m.pairs[CHOOSE i \in 1..Len(m.pairs) : m.pairs[i][1] = k][2]
    ELSE None

\* d[k] = r: an existing key keeps its position, a new key goes last.
PutPairs(ps, k, r) ==
    IF \E i \in 1..Len(ps) : ps[i][1] = k
    THEN [i \in 1..Len(ps) |-> IF ps[i][1] = k THEN <<k, r>> ELSE ps[i]]
    ELSE Append(ps, <<k, r>>)

Put(m, k, r) == [kind |-> "dict", pairs |-> PutPairs(m.pairs, k, r)]

\* ---- the cache file -----------------------------------------------------
\* A document is its kind and, for a JSON object, the members in file order.
Doc(kind, pairs) == [kind |-> kind, pairs |-> pairs]

NoDoc == Doc("none", <<>>)

\* json.load of a JSON object: members are inserted in file order, so a
\* repeated key keeps its first position and its last value.
RECURSIVE ObjectToDict(_)
ObjectToDict(ps) ==
    IF ps = <<>> THEN <<>>
    ELSE LET n == Len(ps)
         IN PutPairs(ObjectToDict(SubSeq(ps, 1, n - 1)), ps[n][1], ps[n][2])

\* json.dump(self.metadata, f, ...): one member per entry, in dict order.
json_dump(m) == Doc("map", m.pairs)

\* _load_metadata: the exception it raises ("none" if it returns) and its value.
load_metadata_empty(d) == [exc |-> "none", value |-> EmptyDict]

_load_metadata(d) ==
    CASE d.kind = "missing"  -> [exc |-> "none", value |-> EmptyDict]
      [] d.kind = "badjson"  -> [exc |-> "none", value |-> EmptyDict]
      [] d.kind = "partial"  -> [exc |-> "none", value |-> EmptyDict]
      [] d.kind = "badbytes" -> [exc |-> "UnicodeDecodeError", value |-> Unset]
      [] d.kind = "nonmap"   -> [exc |-> "none", value |-> ListValue]
      [] OTHER               -> [exc |-> "none",
                                 value |-> [kind |-> "dict", pairs |-> ObjectToDict(d.pairs)]]

\* ---- media file contents ------------------------------------------------
Content(src, gen, whole) == [src |-> src, gen |-> gen, whole |-> whole]

NoFile == Content(0, -1, FALSE)

\* The complete output of remuxing content c.
Remux(c) == Content(c.src, c.gen + 1, TRUE)

\* A partially written output of remuxing content c.
PartialRemux(c) == Content(c.src, c.gen + 1, FALSE)

\* ---- inputs -------------------------------------------------------------
\* What the cache file says about each file: nothing, an empty object, or a
\* record without a poster.
IndexChoices == [Files -> {"absent", "empty", "record"}]

\* The members of the cache file for the first n files under choice c.
RECURSIVE MembersOf(_, _)
MembersOf(c, n) ==
    IF n = 0 THEN <<>>
    ELSE IF c[n] = "absent" THEN MembersOf(c, n - 1)
    ELSE Append(MembersOf(c, n - 1),
                <<relative_path(n), IF c[n] = "empty" THEN EmptyRec ELSE Rec(FALSE)>>)

\* Cache files in which a key is repeated.
RepeatedKeyDocs ==
    { Doc("map", << <<relative_path(1), EmptyRec>>, <<relative_path(1), Rec(FALSE)>> >>),
      Doc("map", << <<relative_path(1), Rec(FALSE)>>, <<relative_path(1), EmptyRec>> >>) }

InitDocs ==
    {Doc(k, <<>>) : k \in {"missing", "badjson", "badbytes", "nonmap"}}
    \cup {Doc("map", MembersOf(c, NumFiles)) : c \in IndexChoices}
    \cup RepeatedKeyDocs

NoResolution == [ret |-> "none", err |-> "none"]

\* A detail response without "credits" (or whose credits have no "cast").
NoCredits == [credits |-> "absent", cast |-> <<>>]

Init ==
    /\ run = 1
    /\ pc = "start"
    /\ toolArg \in {"none", "valid", "bogus"}
    /\ toolFound \in (IF toolArg = "none" THEN BOOLEAN ELSE {TRUE})
    /\ ffmpeg_path = "none"
    /\ disk \in InitDocs
    /\ metaDir = (disk.kind # "missing")
    /\ metadata = Unset
    /\ loaded = Unset
    /\ idx = 0
    /\ detail = "none"
    /\ files = [f \in Files |-> Content(f, 0, TRUE)]
    /\ temp = [n \in Names |-> NoFile]
    /\ embPre = NoFile
    /\ embResult = FALSE
    /\ embCount = [f \in Files |-> 0]
    /\ flushCount = 0
    /\ lookups = 0
    /\ touched = FALSE
    /\ lastRes = NoResolution
    /\ crashCause = "none"
    /\ prevFlush = NoDoc
    /\ pname = <<>>
    /\ pres = [title |-> <<>>, year |-> -1, type |-> "none"]
    /\ ppc = "idle"
    /\ detailed_info = NoCredits
    /\ cast_list = <<>>
    /\ cpc = "idle"

\* ---- construction (__init__) -------------------------------------------
\* _find_ffmpeg: the located binary, or None.
_find_ffmpeg == IF toolFound THEN "valid" ELSE "none"

\* self.ffmpeg_path = ffmpeg_path or self._find_ffmpeg()
ChosenTool == IF toolArg # "none" THEN toolArg ELSE _find_ffmpeg

Terminal == {"done", "crashed", "failed"}

\* __init__ raises RuntimeError: no tool was given and none was found.
ConstructNoTool ==
    /\ pc = "start"
    /\ ChosenTool = "none"
    /\ pc' = "failed"
    /\ crashCause' = "RuntimeError"
    /\ UNCHANGED <<run, toolArg, toolFound, ffmpeg_path, metaDir, disk, metadata,
                   loaded, idx, detail, files, temp, embPre, embResult,
                   embCount, flushCount, lookups, touched, lastRes, prevFlush>>

\* __init__ creates the directories, then _load_metadata raises.
ConstructLoadRaises ==
    /\ pc = "start"
    /\ ChosenTool # "none"
    /\ _load_metadata(disk).exc # "none"
    /\ ffmpeg_path' = ChosenTool
    /\ metaDir' = TRUE
    /\ touched' = (touched \/ ~metaDir)
    /\ pc' = "crashed"
    /\ crashCause' = _load_metadata(disk).exc
    /\ UNCHANGED <<run, toolArg, toolFound, disk, metadata, loaded, idx,
                   detail, files, temp, embPre, embResult, embCount, flushCount,
                   lookups, lastRes, prevFlush>>

\* __init__ returns; main calls scan_directory, which collects media_files.
ConstructOk ==
    /\ pc = "start"
    /\ ChosenTool # "none"
    /\ _load_metadata(disk).exc = "none"
    /\ ffmpeg_path' = ChosenTool
    /\ metaDir' = TRUE
    /\ touched' = (touched \/ ~metaDir)
    /\ metadata' = _load_metadata(disk).value
    /\ loaded' = _load_metadata(disk).value
    /\ idx' = 1
    /\ pc' = "scan"
    /\ UNCHANGED <<run, toolArg, toolFound, disk, detail, files, temp,
                   embPre, embResult, embCount, flushCount, lookups, lastRes,
                   crashCause, prevFlush>>

\* ---- the scan loop (scan_directory) -------------------------------------
\* The file the loop is at.
Cur == media_files[idx]

\* `if not existing_metadata`
NeedsResolve_always(existing) == TRUE

NeedsResolve(existing) == ~Truthy(existing)

\* `if existing_metadata` before the Embedder is called
ShouldEmbed(existing) == Truthy(existing)

\* self.metadata.get on a value that is not a dict raises AttributeError.
ScanAttributeError ==
    /\ pc = "scan"
    /\ idx <= NumFiles
    /\ metadata.kind # "dict"
    /\ pc' = "crashed"
    /\ crashCause' = "AttributeError"
    /\ lastRes' = NoResolution
    /\ UNCHANGED <<run, toolArg, toolFound, ffmpeg_path, metaDir, disk, metadata,
                   loaded, idx, detail, files, temp, embPre, embResult,
                   embCount, flushCount, lookups, touched, prevFlush>>

\* The cache has a record for the file: the Embedder is called with it.
ScanHit ==
    /\ pc = "scan"
    /\ idx <= NumFiles
    /\ metadata.kind = "dict"
    /\ ~NeedsResolve(Get(metadata, relative_path(Cur)))
    /\ IF ShouldEmbed(Get(metadata, relative_path(Cur)))
       THEN /\ pc' = "embed"
            /\ embPre' = files[Cur]
            /\ embCount' = [embCount EXCEPT ![Cur] = @ + 1]
            /\ idx' = idx
       ELSE /\ pc' = "scan"
            /\ idx' = idx + 1
            /\ UNCHANGED <<embPre, embCount>>
    /\ lastRes' = NoResolution
    /\ UNCHANGED <<run, toolArg, toolFound, ffmpeg_path, metaDir, disk, metadata,
                   loaded, detail, files, temp, embResult, flushCount,
                   lookups, touched, crashCause, prevFlush>>

\* The cache has no record for the file: parse the stem, call _search_tmdb.
ScanMiss ==
    /\ pc = "scan"
    /\ idx <= NumFiles
    /\ metadata.kind = "dict"
    /\ NeedsResolve(Get(metadata, relative_path(Cur)))
    /\ pc' = "search"
    /\ lastRes' = NoResolution
    /\ UNCHANGED <<run, toolArg, toolFound, ffmpeg_path, metaDir, disk, metadata,
                   loaded, idx, detail, files, temp, embPre, embResult,
                   embCount, flushCount, lookups, touched, crashCause,
                   prevFlush>>

\* The loop is over: scan_directory goes on to _save_metadata.
ScanEnd ==
    /\ pc = "scan"
    /\ idx > NumFiles
    /\ pc' = "flush"
    /\ lastRes' = NoResolution
    /\ UNCHANGED <<run, toolArg, toolFound, ffmpeg_path, metaDir, disk, metadata,
                   loaded, idx, detail, files, temp, embPre, embResult,
                   embCount, flushCount, lookups, touched, crashCause,
                   prevFlush>>

\* ---- the resolver (_search_tmdb) ----------------------------------------
PipeFrame ==
    UNCHANGED <<run, toolArg, toolFound, ffmpeg_path, metaDir, disk, loaded,
                flushCount, prevFlush>>

\* _search_tmdb returns None: the scan goes on to the next file.
ResolverReturnsNone(err) ==
    /\ lastRes' = [ret |-> "absent", err |-> err]
    /\ pc' = "scan"
    /\ idx' = idx + 1
    /\ detail' = "none"
    /\ UNCHANGED <<metadata, files, temp, embPre, embResult, embCount, crashCause>>

\* _search_tmdb raises an exception that is not a RequestException: nothing
\* catches it, the process ends.
ResolverRaises(exc) ==
    /\ lastRes' = [ret |-> "raised", err |-> "data"]
    /\ pc' = "crashed"
    /\ crashCause' = exc
    /\ detail' = "none"
    /\ UNCHANGED <<metadata, idx, files, temp, embPre, embResult, embCount>>

\* The shapes of a detail response: complete, a Director/Creator crew entry
\* without "name", or a response without "id".
DetailShapes == {"ok", "crew_noname", "no_id"}

\* The rest of _search_tmdb after the last remote call: the crew loop, the
\* record, and back in scan_directory the put and the call of the Embedder.
ResolverBuild(shape, poster) ==
    IF shape = "ok"
    THEN /\ lastRes' = [ret |-> "record", err |-> "none"]
         /\ metadata' = Put(metadata, relative_path(Cur), Rec(poster))
         /\ IF ShouldEmbed(Rec(poster))
            THEN /\ pc' = "embed"
                 /\ embPre' = files[Cur]
                 /\ embCount' = [embCount EXCEPT ![Cur] = @ + 1]
                 /\ idx' = idx
            ELSE /\ pc' = "scan"
                 /\ idx' = idx + 1
                 /\ UNCHANGED <<embPre, embCount>>
         /\ detail' = "none"
         /\ UNCHANGED <<files, temp, embResult, crashCause>>
    ELSE ResolverRaises("KeyError")

\* The search request fails (transport error or non-2xx status).
SearchFails ==
    /\ pc = "search"
    /\ lookups' = lookups + 1
    /\ ResolverReturnsNone("search")
    /\ UNCHANGED touched
    /\ PipeFrame

\* The search response has no results.
SearchEmpty ==
    /\ pc = "search"
    /\ lookups' = lookups + 1
    /\ ResolverReturnsNone("noresult")
    /\ UNCHANGED touched
    /\ PipeFrame

\* The first search result has no "id": result['id'] raises KeyError.
SearchNoId ==
    /\ pc = "search"
    /\ lookups' = lookups + 1
    /\ ResolverRaises("KeyError")
    /\ UNCHANGED touched
    /\ PipeFrame

\* The first search result is taken; the detail request is next.
SearchOk ==
    /\ pc = "search"
    /\ lookups' = lookups + 1
    /\ pc' = "detail"
    /\ UNCHANGED <<metadata, idx, detail, files, temp, embPre, embResult,
                   embCount, lastRes, crashCause, touched>>
    /\ PipeFrame

\* The detail request fails.
DetailFails ==
    /\ pc = "detail"
    /\ ResolverReturnsNone("detail")
    /\ UNCHANGED <<lookups, touched>>
    /\ PipeFrame

\* The detail response carries a poster reference: the poster request is next.
DetailWithPoster ==
    /\ pc = "detail"
    /\ \E shape \in DetailShapes : detail' = shape
    /\ pc' = "poster"
    /\ UNCHANGED <<metadata, idx, files, temp, embPre, embResult,
                   embCount, lastRes, crashCause, lookups, touched>>
    /\ PipeFrame

\* The detail response carries no poster reference.
DetailNoPoster ==
    /\ pc = "detail"
    /\ \E shape \in DetailShapes : ResolverBuild(shape, FALSE)
    /\ UNCHANGED <<lookups, touched>>
    /\ PipeFrame

\* The poster request fails: raise_for_status or the transport raises a
\* RequestException, which the except clause turns into None.
PosterFails ==
    /\ pc = "poster"
    /\ ResolverReturnsNone("poster")
    /\ UNCHANGED <<lookups, touched>>
    /\ PipeFrame

\* The poster is downloaded into .metadata/posters/<id>.jpg.
PosterOk ==
    /\ pc = "poster"
    /\ touched' = TRUE
    /\ ResolverBuild(detail, TRUE)
    /\ UNCHANGED lookups
    /\ PipeFrame

\* ---- the embedder (_apply_metadata_to_file) -----------------------------
EmbedFrame ==
    /\ lastRes' = NoResolution
    /\ UNCHANGED <<run, toolArg, toolFound, ffmpeg_path, metaDir, disk, metadata,
                   loaded, idx, detail, embPre, embCount, flushCount,
                   lookups, crashCause, prevFlush>>

\* temp_output: Path(tempfile.gettempdir()) / f"temp_{file_path.name}"
temp_output(f) == FileName(f)

\* `if result.returncode != 0: return False` decides whether os.replace runs.
ReplaceAllowed_any(returncode) == TRUE

ReplaceAllowed(returncode) == returncode = 0

\* Where the call goes once the tool has exited with the given status.
AfterTool(returncode) ==
    IF ReplaceAllowed(returncode)
    THEN /\ pc' = "replace"
         /\ UNCHANGED embResult
    ELSE /\ pc' = "embed_ret"
         /\ embResult' = FALSE

\* subprocess.run raises (the configured tool path names no executable);
\* `except Exception` returns False.
EmbedToolMissing ==
    /\ pc = "embed"
    /\ ffmpeg_path # "valid"
    /\ pc' = "embed_ret"
    /\ embResult' = FALSE
    /\ UNCHANGED <<files, temp, touched>>
    /\ EmbedFrame

\* The tool exits non-zero before it writes any output: the input cannot be
\* read, or the output path exists already and the tool declines to
\* overwrite it.
FfmpegFailsEarly ==
    /\ pc = "embed"
    /\ ffmpeg_path = "valid"
    /\ AfterTool(1)
    /\ UNCHANGED <<files, temp, touched>>
    /\ EmbedFrame

\* The tool opens the output path and starts writing the remuxed streams.
FfmpegStarts ==
    /\ pc = "embed"
    /\ ffmpeg_path = "valid"
    /\ temp' = [temp EXCEPT ![temp_output(Cur)] = PartialRemux(files[Cur])]
    /\ pc' = "ffmpeg"
    /\ UNCHANGED <<files, embResult, touched>>
    /\ EmbedFrame

\* The tool fails part-way: exit status non-zero, the output left as it is.
FfmpegFails ==
    /\ pc = "ffmpeg"
    /\ AfterTool(1)
    /\ UNCHANGED <<files, temp, touched>>
    /\ EmbedFrame

\* The tool completes the output and exits with status 0.
FfmpegSucceeds ==
    /\ pc = "ffmpeg"
    /\ temp' = [temp EXCEPT ![temp_output(Cur)] = Remux(files[Cur])]
    /\ AfterTool(0)
    /\ UNCHANGED <<files, touched>>
    /\ EmbedFrame

\* os.replace(temp_output, file_path) renames the output over the original.
ReplaceOk ==
    /\ pc = "replace"
    /\ temp[temp_output(Cur)] # NoFile
    /\ files' = [files EXCEPT ![Cur] = temp[temp_output(Cur)]]
    /\ temp' = [temp EXCEPT ![temp_output(Cur)] = NoFile]
    /\ touched' = TRUE
    /\ embResult' = TRUE
    /\ pc' = "embed_ret"
    /\ EmbedFrame

\* os.replace raises OSError (the scratch directory is on another
\* filesystem, or there is nothing to rename); `except Exception` returns False.
ReplaceRaises ==
    /\ pc = "replace"
    /\ embResult' = FALSE
    /\ pc' = "embed_ret"
    /\ UNCHANGED <<files, temp, touched>>
    /\ EmbedFrame

\* Back in scan_directory: count the success, go on to the next file.
EmbedReturn ==
    /\ pc = "embed_ret"
    /\ pc' = "scan"
    /\ idx' = idx + 1
    /\ embPre' = NoFile
    /\ embResult' = FALSE
    /\ UNCHANGED <<run, toolArg, toolFound, ffmpeg_path, metaDir, disk, metadata,
                   loaded, detail, files, temp, embCount, flushCount,
                   lookups, touched, lastRes, crashCause, prevFlush>>

\* ---- flush (_save_metadata) ---------------------------------------------
FlushFrame ==
    UNCHANGED <<run, toolArg, toolFound, ffmpeg_path, metaDir, metadata, loaded,
                idx, detail, files, temp, embPre, embResult, embCount,
                lookups, lastRes, crashCause, prevFlush>>

\* open(self.metadata_file, 'w') truncates the file.
FlushOpen ==
    /\ pc = "flush"
    /\ disk' = Doc("partial", <<>>)
    /\ touched' = TRUE
    /\ pc' = "flush_write"
    /\ UNCHANGED flushCount
    /\ FlushFrame

\* json.dump writes the next member of the object.
FlushWrite ==
    /\ pc = "flush_write"
    /\ Len(disk.pairs) < Len(metadata.pairs)
    /\ disk' = Doc("partial", Append(disk.pairs, metadata.pairs[Len(disk.pairs) + 1]))
    /\ UNCHANGED <<pc, touched, flushCount>>
    /\ FlushFrame

\* json.dump writes the closing brace, the file is closed, scan_directory returns.
FlushClose ==
    /\ pc = "flush_write"
    /\ Len(disk.pairs) = Len(metadata.pairs)
    /\ disk' = json_dump(metadata)
    /\ flushCount' = flushCount + 1
    /\ pc' = "done"
    /\ UNCHANGED touched
    /\ FlushFrame

\* ---- the next process run (main) ----------------------------------------
NextRun ==
    /\ pc \in Terminal
    /\ run < MaxRuns
    /\ run' = run + 1
    /\ pc' = "start"
    /\ prevFlush' = IF pc = "done" THEN disk ELSE NoDoc
    /\ ffmpeg_path' = "none"
    /\ metadata' = Unset
    /\ loaded' = Unset
    /\ idx' = 0
    /\ detail' = "none"
    /\ embPre' = NoFile
    /\ embResult' = FALSE
    /\ embCount' = [f \in Files |-> 0]
    /\ flushCount' = 0
    /\ lookups' = 0
    /\ touched' = FALSE
    /\ lastRes' = NoResolution
    /\ crashCause' = "none"
    /\ UNCHANGED <<toolArg, toolFound, metaDir, disk, files, temp>>

Next ==
    \/ (ConstructNoTool /\ UNCHANGED <<parseVars, castVars>>)
    \/ (ConstructLoadRaises /\ UNCHANGED <<parseVars, castVars>>)
    \/ (ConstructOk /\ UNCHANGED <<parseVars, castVars>>)
    \/ (ScanAttributeError /\ UNCHANGED <<parseVars, castVars>>)
    \/ (ScanHit /\ UNCHANGED <<parseVars, castVars>>)
    \/ (ScanMiss /\ UNCHANGED <<parseVars, castVars>>)
    \/ (ScanEnd /\ UNCHANGED <<parseVars, castVars>>)
    \/ (SearchFails /\ UNCHANGED <<parseVars, castVars>>)
    \/ (SearchEmpty /\ UNCHANGED <<parseVars, castVars>>)
    \/ (SearchNoId /\ UNCHANGED <<parseVars, castVars>>)
    \/ (SearchOk /\ UNCHANGED <<parseVars, castVars>>)
    \/ (DetailFails /\ UNCHANGED <<parseVars, castVars>>)
    \/ (DetailWithPoster /\ UNCHANGED <<parseVars, castVars>>)
    \/ (DetailNoPoster /\ UNCHANGED <<parseVars, castVars>>)
    \/ (PosterFails /\ UNCHANGED <<parseVars, castVars>>)
    \/ (PosterOk /\ UNCHANGED <<parseVars, castVars>>)
    \/ (EmbedToolMissing /\ UNCHANGED <<parseVars, castVars>>)
    \/ (FfmpegFailsEarly /\ UNCHANGED <<parseVars, castVars>>)
    \/ (FfmpegStarts /\ UNCHANGED <<parseVars, castVars>>)
    \/ (FfmpegFails /\ UNCHANGED <<parseVars, castVars>>)
    \/ (FfmpegSucceeds /\ UNCHANGED <<parseVars, castVars>>)
    \/ (ReplaceOk /\ UNCHANGED <<parseVars, castVars>>)
    \/ (ReplaceRaises /\ UNCHANGED <<parseVars, castVars>>)
    \/ (EmbedReturn /\ UNCHANGED <<parseVars, castVars>>)
    \/ (FlushOpen /\ UNCHANGED <<parseVars, castVars>>)
    \/ (FlushWrite /\ UNCHANGED <<parseVars, castVars>>)
    \/ (FlushClose /\ UNCHANGED <<parseVars, castVars>>)
    \/ (NextRun /\ UNCHANGED <<parseVars, castVars>>)

Spec == Init /\ [][Next]_vars

\* ---- the filename parser (_parse_filename) ----------------------------
\* Strings are sequences of one-character strings.
Digits == {"0", "1", "2", "3", "4", "5", "6", "7", "8", "9"}

DigitValue(c) ==
    CASE c = "0" -> 0 [] c = "1" -> 1 [] c = "2" -> 2 [] c = "3" -> 3
      [] c = "4" -> 4 [] c = "5" -> 5 [] c = "6" -> 6 [] c = "7" -> 7
      [] c = "8" -> 8 [] OTHER -> 9

\* int(s) of a string of digits
RECURSIVE int(_)
int(s) ==
    IF s = <<>> THEN 0
    ELSE 10 * int(SubSeq(s, 1, Len(s) - 1)) + DigitValue(s[Len(s)])

MaxOf(S) == CHOOSE x \in S : \A y \in S : y <= x

\* s[a..b] are all digits (and inside s)
AllDigits(s, a, b) == a >= 1 /\ b <= Len(s) /\ \A k \in a..b : s[k] \in Digits

\* str.strip(): leading and trailing whitespace removed
RECURSIVE strip(_)
strip(s) ==
    IF s = <<>> THEN s
    ELSE IF s[1] = " " THEN strip(Tail(s))
    ELSE IF s[Len(s)] = " " THEN strip(SubSeq(s, 1, Len(s) - 1))
    ELSE s

\* str.replace(".", " ")
replace_dots(s) == [i \in 1..Len(s) |-> IF s[i] = "." THEN " " ELSE s[i]]

\* str.split('.')[0]: the text before the first period
split_first(s) ==
    LET dots == {i \in 1..Len(s) : s[i] = "."}
    IN IF dots = {} THEN s
       ELSE SubSeq(s, 1, (CHOOSE i \in dots : \A j \in dots : i <= j) - 1)

\* re.match(r"(.+)\((\d{4})\).*", s): the lengths group 1 can have
movie_pattern1(s) ==
    {i \in 1..Len(s) : /\ i + 6 <= Len(s)
                       /\ s[i + 1] = "("
                       /\ AllDigits(s, i + 2, i + 5)
                       /\ s[i + 6] = ")"}

\* re.match(r"(.+)\.(\d{4})\.", s): the lengths group 1 can have
movie_pattern2(s) ==
    {i \in 1..Len(s) : /\ i + 6 <= Len(s)
                       /\ s[i + 1] = "."
                       /\ AllDigits(s, i + 2, i + 5)
                       /\ s[i + 6] = "."}

\* re.match(r"(.+)[sS](\d+)[eE](\d+)", s): the lengths group 1 can have
tv_pattern(s) ==
    {i \in 1..Len(s) : /\ i + 4 <= Len(s)
                       /\ s[i + 1] \in {"s", "S"}
                       /\ \E j \in 1..Len(s) :
                             /\ i + 3 + j <= Len(s)
                             /\ AllDigits(s, i + 2, i + 1 + j)
                             /\ s[i + 2 + j] \in {"e", "E"}
                             /\ s[i + 3 + j] \in Digits}

\* The year of a tuple whose year is None.
NoYear == -1

Parsed(title, year, type) == [title |-> title, year |-> year, type |-> type]

\* _parse_filename(filename); the greedy group 1 is the longest that matches.
_parse_filename(filename) ==
    IF movie_pattern1(filename) # {}
    THEN LET i == MaxOf(movie_pattern1(filename))
         IN Parsed(replace_dots(strip(SubSeq(filename, 1, i))),
                   int(SubSeq(filename, i + 2, i + 5)), "movie")
    ELSE IF movie_pattern2(filename) # {}
    THEN LET i == MaxOf(movie_pattern2(filename))
         IN Parsed(replace_dots(strip(SubSeq(filename, 1, i))),
                   int(SubSeq(filename, i + 2, i + 5)), "movie")
    ELSE IF tv_pattern(filename) # {}
    THEN LET i == MaxOf(tv_pattern(filename))
         IN Parsed(replace_dots(strip(SubSeq(filename, 1, i))), NoYear, "tv")
    ELSE Parsed(replace_dots(split_first(filename)), NoYear, "movie")

\* Path.suffix and Path.stem: the name is cut at its last period unless that
\* period is the first or the last character.
LastDot(name) ==
    LET dots == {i \in 1..Len(name) : name[i] = "."}
    IN IF dots = {} THEN 0 ELSE MaxOf(dots)

suffix(name) ==
    IF 1 < LastDot(name) /\ LastDot(name) < Len(name)
    THEN SubSeq(name, LastDot(name), Len(name))
    ELSE <<>>

stem(name) ==
    IF 1 < LastDot(name) /\ LastDot(name) < Len(name)
    THEN SubSeq(name, 1, LastDot(name) - 1)
    ELSE name

\* The pieces file names are put together from.
Tokens ==
    { <<"N">>, <<".">>, <<" ">>,
      <<"2", "0", "2", "0">>,
      <<"(", "1", "9", "9", "9", ")">>,
      <<"S", "0", "1", "e", "0", "2">> }

Ext == <<".", "m", "p", "4">>

RECURSIVE Concats(_)
Concats(n) ==
    IF n = 0 THEN {<<>>}
    ELSE LET shorter == Concats(n - 1)
         IN shorter \cup {s \o t : s \in shorter, t \in Tokens}

\* The eligible file names: `file_path.suffix.lower() in self.video_extensions`
MediaNames == {n \in {s \o Ext : s \in Concats(MaxTok)} : suffix(n) = Ext}

InitParse ==
    /\ run = 1
    /\ pc = "scan"
    /\ toolArg = "valid"
    /\ toolFound = TRUE
    /\ ffmpeg_path = "valid"
    /\ disk = Doc("missing", <<>>)
    /\ metaDir = TRUE
    /\ metadata = EmptyDict
    /\ loaded = EmptyDict
    /\ idx = 1
    /\ detail = "none"
    /\ files = [f \in Files |-> Content(f, 0, TRUE)]
    /\ temp = [n \in Names |-> NoFile]
    /\ embPre = NoFile
    /\ embResult = FALSE
    /\ embCount = [f \in Files |-> 0]
    /\ flushCount = 0
    /\ lookups = 0
    /\ touched = FALSE
    /\ lastRes = NoResolution
    /\ crashCause = "none"
    /\ prevFlush = NoDoc
    /\ pname \in MediaNames
    /\ pres = Parsed(<<>>, NoYear, "none")
    /\ ppc = "input"
    /\ detailed_info = NoCredits
    /\ cast_list = <<>>
    /\ cpc = "idle"

\* scan_directory, on a cache miss:
\* title, year, media_type = self._parse_filename(file_path.stem)
ScanParse ==
    /\ ppc = "input"
    /\ pres' = _parse_filename(stem(pname))
    /\ ppc' = "parsed"
    /\ UNCHANGED pname

NextParse == ScanParse /\ UNCHANGED <<pipeVars, castVars>>

SpecParse == InitParse /\ [][NextParse]_vars

\* ---- the cast extraction (_search_tmdb) ---------------------------------
\* `for actor in cast[:5]`: the number of entries the loop looks at.
CastLimit == 5

\* The shapes of a credits entry: with both fields, without "name", without
\* "character", without either.
ActorShapes == {"both", "noname", "nochar", "neither"}

\* The entry at position i of the catalog's list; its name and its character
\* are told from those of the other entries by i.
Actor(i, shape) ==
    [id |-> i,
     has_name |-> shape \in {"both", "nochar"},
     has_character |-> shape \in {"both", "noname"}]

\* detailed_info.get("credits", {}).get("cast", [])
GetCast(info) == IF info.credits = "present" THEN info.cast ELSE <<>>

\* cast[:n]
Slice(cast, n) == SubSeq(cast, 1, IF Len(cast) < n THEN Len(cast) ELSE n)

\* `"name" in actor and "character" in actor`
HasBoth(actor) == actor.has_name /\ actor.has_character

\* {"name": actor["name"], "character": actor["character"]}
CastEntry(actor) == [name |-> actor.id, character |-> actor.id]

\* The loop body over the entries it is given: append the entries that carry
\* both fields, in order.
RECURSIVE CastLoop(_)
CastLoop(actors) ==
    IF actors = <<>> THEN <<>>
    ELSE LET rest == CastLoop(Tail(actors))
         IN IF HasBoth(Head(actors)) THEN <<CastEntry(Head(actors))>> \o rest
            ELSE rest

\* The record's "cast": the loop runs over the first CastLimit entries.
BuildCastList(info) == CastLoop(Slice(GetCast(info), CastLimit))

\* The detail responses: no credits, or a cast list of up to MaxCast entries.
CreditLists ==
    UNION { { [i \in 1..n |-> Actor(i, sh[i])] : sh \in [1..n -> ActorShapes] } :
            n \in 0..MaxCast }

DetailResponses ==
    {NoCredits} \cup {[credits |-> "present", cast |-> c] : c \in CreditLists}

InitCast ==
    /\ run = 1
    /\ pc = "detail"
    /\ toolArg = "valid"
    /\ toolFound = TRUE
    /\ ffmpeg_path = "valid"
    /\ disk = Doc("missing", <<>>)
    /\ metaDir = TRUE
    /\ metadata = EmptyDict
    /\ loaded = EmptyDict
    /\ idx = 1
    /\ detail = "ok"
    /\ files = [f \in Files |-> Content(f, 0, TRUE)]
    /\ temp = [n \in Names |-> NoFile]
    /\ embPre = NoFile
    /\ embResult = FALSE
    /\ embCount = [f \in Files |-> 0]
    /\ flushCount = 0
    /\ lookups = 1
    /\ touched = FALSE
    /\ lastRes = NoResolution
    /\ crashCause = "none"
    /\ prevFlush = NoDoc
    /\ pname = <<>>
    /\ pres = Parsed(<<>>, NoYear, "none")
    /\ ppc = "idle"
    /\ detailed_info \in DetailResponses
    /\ cast_list = <<>>
    /\ cpc = "detail"

\* _search_tmdb, after the detail response has arrived: the cast loop.
ExtractCast ==
    /\ cpc = "detail"
    /\ cast_list' = BuildCastList(detailed_info)
    /\ cpc' = "built"
    /\ UNCHANGED detailed_info

NextCast == ExtractCast /\ UNCHANGED <<pipeVars, parseVars>>

SpecCast == InitCast /\ [][NextCast]_vars

\* ---- properties ---------------------------------------------------------
\* The process is inside a call of _apply_metadata_to_file.
InEmbedder == pc \in {"embed", "ffmpeg", "replace", "embed_ret"}

\* The process is inside a call of _search_tmdb.
InResolver == pc \in {"search", "detail", "poster"}

\* C1: during and after every call of the Embedder the original path holds
\* either the complete contents it had when the call began or the complete
\* remux output of them; until os.replace has run it holds the former, and a
\* call that returns False leaves the former. No original path ever holds a
\* partial output or another file's contents.
C1_OriginalOrCompleteRemux ==
    /\ \A f \in Files : files[f].whole /\ files[f].src = f
    /\ InEmbedder =>
          /\ files[Cur] \in {embPre, Remux(embPre)}
          /\ (pc \in {"embed", "ffmpeg", "replace"} => files[Cur] = embPre)
          /\ (pc = "embed_ret" /\ ~embResult => files[Cur] = embPre)
          /\ (pc = "embed_ret" /\ embResult => files[Cur] = Remux(embPre))

\* C1 witness: the tool failed after writing part of its output, the call
\* returned False and the file is as it was.
C1_Witness ==
    /\ pc = "embed_ret"
    /\ ~embResult
    /\ temp[temp_output(Cur)] = PartialRemux(embPre)
    /\ files[Cur] = embPre

\* C2: a run whose cache loaded as a mapping never ends but with the scan
\* complete: every file processed and the cache flushed, whatever remote,
\* data or mutation errors the files met.
C2_ScanNeverStops ==
    (pc \in Terminal /\ loaded.kind = "dict") =>
        (pc = "done" /\ idx > NumFiles /\ flushCount = 1)

PrevRunCachedAll ==
    /\ run >= 2
    /\ prevFlush.kind = "map"
    /\ \A f \in Files :
          \E i \in 1..Len(prevFlush.pairs) :
              /\ prevFlush.pairs[i][1] = relative_path(f)
              /\ Truthy(prevFlush.pairs[i][2])

\* C4: a run that follows a completed run whose flushed cache holds a record
\* for every eligible file issues no remote lookup, does not fail, and
\* leaves the cache file identical to the previous flush when it is done.
C4_SecondRunIdempotent ==
    PrevRunCachedAll =>
        /\ lookups = 0
        /\ pc # "crashed"
        /\ (pc = "done" => disk = prevFlush)

\* C4 witness: such a second run has completed.
C4_Witness ==
    /\ PrevRunCachedAll
    /\ pc = "done"
    /\ Len(prevFlush.pairs) = NumFiles
    /\ disk = prevFlush

\* C5: when the poster download is what failed, the Resolver has returned a
\* record, stored under the file's path, and the record has no local poster
\* path.
C5_PosterFailureKeepsRecord ==
    lastRes.err = "poster" =>
        /\ lastRes.ret = "record"
        /\ Truthy(Get(metadata, relative_path(media_files[idx - 1])))
        /\ ~Get(metadata, relative_path(media_files[idx - 1])).poster

\* C6: at every point of a flush and after it the cache file is a complete
\* document, never an empty or partially written one.
C6_FlushAtomic ==
    pc \in {"flush", "flush_write", "done"} => disk.kind # "partial"

\* The cache file is missing or is not a JSON object.
IndexUnusable == disk.kind \in {"missing", "badjson", "badbytes", "nonmap"}

\* C7: with a missing or unusable cache file, load returns an empty cache
\* and neither load nor the scan's cache lookup ends the process.
C7_LoadNeverFails ==
    (IndexUnusable /\ pc \in {"scan", "search", "detail", "poster", "embed",
                              "ffmpeg", "replace", "embed_ret", "crashed"}) =>
        /\ loaded = EmptyDict
        /\ crashCause \notin {"UnicodeDecodeError", "AttributeError"}

\* No tool was found on the system and none was given, or the given path
\* names no existing tool.
ToolUnavailable == (toolArg = "none" /\ ~toolFound) \/ toolArg = "bogus"

\* C8: when the tool is unavailable the run gets no further than the failed
\* construction: no remote lookup, nothing created or modified.
C8_NoToolFailsAtStartup ==
    ToolUnavailable => (pc \in {"start", "failed"} /\ lookups = 0 /\ ~touched)

\* C9: in a scan the Embedder is called at most once per file and only with
\* the file's record in the cache, the flush happens only after the last
\* file, and when the scan is over the Embedder has been called exactly once
\* for exactly the files that have a record and the cache has been flushed
\* exactly once.
C9_EmbedOnceFlushOnce ==
    /\ \A f \in Files :
          /\ embCount[f] <= 1
          /\ (embCount[f] = 1 => Truthy(Get(metadata, relative_path(f))))
    /\ flushCount <= 1
    /\ (pc \in {"flush", "flush_write", "done"} => idx > NumFiles)
    /\ (pc \in {"done", "crashed"} /\ loaded.kind = "dict") =>
          /\ flushCount = 1
          /\ \A f \in Files :
                embCount[f] = IF Truthy(Get(metadata, relative_path(f))) THEN 1 ELSE 0

\* The stem is words of "N" joined by single periods, a period, four digits.
DotYearStem(s) ==
    LET n == Len(s)
    IN /\ n >= 6
       /\ AllDigits(s, n - 3, n)
       /\ s[n - 4] = "."
       /\ s[1] = "N"
       /\ s[n - 5] = "N"
       /\ \A k \in 1..(n - 5) : s[k] \in {"N", "."}
       /\ \A k \in 1..(n - 6) : ~(s[k] = "." /\ s[k + 1] = ".")

\* C10: for a file named <dot-separated title>.<4-digit year>.<extension>
\* the scan's query is a movie, with the year as an integer and the title
\* with its periods replaced by spaces.
C10_DotYearIsMovieWithYear ==
    (ppc = "parsed" /\ suffix(pname) = Ext /\ DotYearStem(stem(pname))) =>
        LET s == stem(pname)
        IN pres = Parsed(replace_dots(SubSeq(s, 1, Len(s) - 5)),
                         int(SubSeq(s, Len(s) - 3, Len(s))), "movie")

\* A series marker starts at position m of s: [sS], digits, [eE], a digit.
MarkerAt(s, m) ==
    /\ m >= 1
    /\ m + 3 <= Len(s)
    /\ s[m] \in {"s", "S"}
    /\ \E j \in 1..Len(s) :
          /\ m + 2 + j <= Len(s)
          /\ AllDigits(s, m + 1, m + j)
          /\ s[m + 1 + j] \in {"e", "E"}
          /\ s[m + 2 + j] \in Digits

\* s contains a 4-digit year in parentheses, or one that follows a period
\* and is followed by a period or by the end of the stem.
HasYear(s) ==
    \E i \in 1..Len(s) :
        /\ AllDigits(s, i + 1, i + 4)
        /\ \/ s[i] = "(" /\ i + 5 <= Len(s) /\ s[i + 5] = ")"
           \/ s[i] = "." /\ (i + 4 = Len(s) \/ s[i + 5] = ".")

\* The stem is Title.S<digits>E<digits>...: one marker, a period right
\* before it, before the period a title that neither starts nor ends with a
\* period or a space, and no year anywhere.
SeriesStem(s, m) ==
    /\ m >= 3
    /\ s[1] \notin {".", " "}
    /\ s[m - 2] \notin {".", " "}
    /\ MarkerAt(s, m)
    /\ \A k \in 1..Len(s) : MarkerAt(s, k) => k = m
    /\ s[m - 1] = "."
    /\ ~HasYear(s)

\* C11: for a file whose stem is Title.S<digits>E<digits>... with no year,
\* the scan's query is a series with no year, and its title is the text
\* before the marker with periods replaced by spaces and without leading or
\* trailing whitespace.
C11_SeriesTitleTrimmed ==
    ppc = "parsed" =>
        \A m \in 1..Len(stem(pname)) :
            SeriesStem(stem(pname), m) =>
                pres = Parsed(strip(replace_dots(SubSeq(stem(pname), 1, m - 1))),
                              NoYear, "tv")

\* C12: when a call of the Embedder returns without having replaced the
\* original file (the tool exited non-zero, or an exception was caught), no
\* temporary output file for that file name is left in the scratch location.
C12_FailedEmbedRemovesTemp ==
    (pc = "embed_ret" /\ ~embResult) => temp[temp_output(Cur)] = NoFile

\* The entries of the catalog's list that carry both fields, in catalog order.
CompleteEntries == SelectSeq(GetCast(detailed_info), HasBoth)

\* C13: the record's cast is the first 5, in catalog order, of the credits
\* entries that carry both a name and a character: it has min(5, number of
\* such entries) elements, whatever incomplete entries come before them.
C13_CastIsFirstFiveComplete ==
    cpc = "built" =>
        /\ Len(cast_list) = (IF Len(CompleteEntries) < 5 THEN Len(CompleteEntries) ELSE 5)
        /\ \A i \in 1..Len(cast_list) : cast_list[i] = CastEntry(CompleteEntries[i])

====
